---- MODULE Spec2Model ----
(***************************************************************************)
(* ECGRPeakModifier (src/ecg_rpeaks_modifier.py): get_rpeaks followed by   *)
(* adjust_rpeaks, one action per loop iteration.                           *)
(*                                                                         *)
(* ecg_arr is a function over the sample positions 0..SigLen-1 (positions  *)
(* are the values stored in the peak lists, so they keep the source's      *)
(* 0-based numbering).  The peak lists rpeaks, adjusted_rpeaks and         *)
(* candidate_rpeaks are TLA+ sequences: slot k of the source is slot k+1   *)
(* here, and the loop variable i runs over 1..Len(rpeaks)-1.               *)
(* Amplitudes are integers, so every comparison is exact.                  *)
(***************************************************************************)
EXTENDS Integers, Sequences, FiniteSets

VARIABLES pc, ecg_arr, rpeaks, adjusted_rpeaks, candidate_rpeaks,
          peak_height, i, ret, writers

vars == <<pc, ecg_arr, rpeaks, adjusted_rpeaks, candidate_rpeaks,
          peak_height, i, ret, writers>>

(* ------------------------------ bounds -------------------------------- *)
SigLen == 6
MaxAmp == 2
TallAmp == 6
MaxPeaks == 2

(* height_threshold = 0.4 = HeightNum / HeightDen *)
HeightNum == 2
HeightDen == 5

(* The cleaned recordings of n samples explored: amplitudes 0..MaxAmp, of  *)
(* which at most one sample is a spike of amplitude TallAmp (with the      *)
(* spike the height floor rejects the low maxima).                         *)
Signals(n) ==
  LET Low == [0 .. (n - 1) -> 0 .. MaxAmp]
  IN Low \cup { [b EXCEPT ![p] = TallAmp] : b \in Low, p \in 0 .. (n - 1) }

(* ------------------------------ helpers ------------------------------- *)
SetMin(S) == CHOOSE m \in S : \A x \in S : m <= x
SetMax(S) == CHOOSE m \in S : \A x \in S : m >= x

RECURSIVE SortedSeq(_)
SortedSeq(S) == IF S = {} THEN << >>
                ELSE LET m == SetMin(S) IN << m >> \o SortedSeq(S \ {m})

Range(s) == { s[k] : k \in DOMAIN s }

(* what nk.ecg_peaks can hand back for n samples: strictly ascending       *)
(* sample positions, at most m of them, the first at the recording's first *)
(* sample; the empty list stands for both "no peak found" and the except   *)
(* branch of get_rpeaks                                                    *)
PeakSeqs(n, m) ==
  { SortedSeq(S) : S \in { T \in SUBSET (0 .. (n - 1)) :
                             /\ Cardinality(T) <= m
                             /\ T # {} => 0 \in T } }

(* self.ecg_arr[a:b] for 0 <= a, b <= len: empty when a >= b *)
Segment(arr, a, b) == [k \in 0 .. (b - a - 1) |-> arr[a + k]]
SegLen(x) == Cardinality(DOMAIN x)

(* scipy.signal.find_peaks: a local maximum is a plateau l..r strictly      *)
(* inside the array whose two outer neighbours are strictly lower; the     *)
(* reported offset is the plateau's midpoint (l + r) // 2.                 *)
LocalMaxima(x) ==
  LET n == SegLen(x)
      In == 1 .. (n - 2)
  IN { (l + r) \div 2 :
         <<l, r>> \in { e \in In \X In :
                          /\ e[1] <= e[2]
                          /\ x[e[1] - 1] < x[e[1]]
                          /\ x[e[2] + 1] < x[e[2]]
                          /\ \A k \in e[1] .. e[2] : x[k] = x[e[1]] } }

(* find_peaks(segment, height=peak_height): x[p] >= height, with           *)
(* peak_height kept scaled by HeightDen                                    *)
FindPeaksHeight(x, h) ==
  SortedSeq({ p \in LocalMaxima(x) : HeightDen * x[p] >= h })

(* find_peaks(segment) *)
FindPeaks(x) == SortedSeq(LocalMaxima(x))

(* (np.max - np.min) * height_threshold, scaled by HeightDen *)
PeakHeight(arr) ==
  (SetMax(Range(arr)) - SetMin(Range(arr))) * HeightNum

(* the assignment done as list.insert(k, v): the list grows *)
SetSlotInsert(adj, k, v) ==
  SubSeq(adj, 1, k - 1) \o << v >> \o SubSeq(adj, k, Len(adj))

(* adjusted_rpeaks[k] = v *)
SetSlot(adj, k, v) == [adj EXCEPT ![k] = v]

(* the emptiness test written so that it never matches *)
NoPeaksNever(pk) == Len(pk) < 0

(* len(self.rpeaks) == 0 *)
NoPeaks(pk) == Len(pk) = 0

(* ------------------------------- Init --------------------------------- *)
(* __init__: ecg_arr is the raw recording, a flat line here (get_rpeaks    *)
(* replaces it by the cleaned signal before anything reads it)             *)
RawRecording(n) ==
  /\ pc = "new"
  /\ ecg_arr = [p \in 0 .. (n - 1) |-> 0]
  /\ rpeaks = << >>
  /\ adjusted_rpeaks = << >>
  /\ candidate_rpeaks = << >>
  /\ peak_height = 0
  /\ i = 0
  /\ ret = "none"
  /\ writers = << >>

(* get_rpeaks for a recording with at most m detected peaks: the cleaned   *)
(* signal (same length) and the peaks are whatever the external library    *)
(* returns                                                                 *)
Detected(m) ==
  /\ ecg_arr' \in Signals(SegLen(ecg_arr))
  /\ rpeaks' \in PeakSeqs(SegLen(ecg_arr), m)

(* adjust_rpeaks, lines 51-52 *)
ReturnNoPeaks ==
  /\ pc = "ready"
  /\ NoPeaks(rpeaks)
  /\ ret' = "NoPeaks"
  /\ pc' = "done"
  /\ UNCHANGED <<ecg_arr, rpeaks, adjusted_rpeaks, candidate_rpeaks,
                 peak_height, i, writers>>

(* adjust_rpeaks, lines 54-58 *)
BeginAdjust ==
  /\ pc = "ready"
  /\ ~NoPeaks(rpeaks)
  /\ adjusted_rpeaks' = rpeaks
  /\ candidate_rpeaks' = << >>
  /\ peak_height' = PeakHeight(ecg_arr)
  /\ writers' = [k \in DOMAIN rpeaks |-> {}]
  /\ i' = 1
  /\ pc' = "main"
  /\ UNCHANGED <<ecg_arr, rpeaks, ret>>

(* the segment offset taken for the absolute position *)
AbsIdxOffsetOnly(pk, k, p) == p

(* lines 74, 93, 94: self.rpeaks[i] + peaks[..] *)
AbsIdx(pk, k, p) == pk[k] + p

(* the comparison of line 80 made non-strict: a tie goes to the right slot *)
CloserSlotTieRight(pk, k, abs_peak_idx) ==
  IF (abs_peak_idx - pk[k]) >= (pk[k + 1] - abs_peak_idx) THEN k + 1 ELSE k

(* lines 80-83: the slot of the original peak closer to the maximum *)
CloserSlot(pk, k, abs_peak_idx) ==
  IF (abs_peak_idx - pk[k]) > (pk[k + 1] - abs_peak_idx) THEN k + 1 ELSE k

(* the comparison of line 87 reversed: the higher original peak is replaced *)
LowerSlotReversed(rpeak_left, rpeak_right, k) ==
  IF rpeak_left > rpeak_right THEN k ELSE k + 1

(* lines 87-90: the slot of the lower original peak *)
LowerSlot(rpeak_left, rpeak_right, k) ==
  IF rpeak_left < rpeak_right THEN k ELSE k + 1

(* the comparisons of line 99 made non-strict *)
BothExceedOrEqual(diff_1, diff_2) == diff_1 >= 0 /\ diff_2 >= 0

(* line 99 *)
BothExceed(diff_1, diff_2) == diff_1 > 0 /\ diff_2 > 0

(* the two assignments of lines 101-102 with the maxima exchanged *)
TwoPeakWritesSwapped(k, abs_peak_idx_1, abs_peak_idx_2) ==
  << <<k, abs_peak_idx_2>>, <<k + 1, abs_peak_idx_1>> >>

(* lines 101-102 *)
TwoPeakWrites(k, abs_peak_idx_1, abs_peak_idx_2) ==
  << <<k, abs_peak_idx_1>>, <<k + 1, abs_peak_idx_2>> >>

(* one iteration of the main loop, lines 62-102, for the pair of slots     *)
(* k, k+1: the assignments to adjusted_rpeaks it performs, in order, as    *)
(* <<slot, value>> pairs.  Only self.rpeaks and self.ecg_arr are read.     *)
SegmentWrites(arr, pk, k, h) ==
  LET segment     == Segment(arr, pk[k], pk[k + 1])
      rpeak_left  == arr[pk[k]]
      rpeak_right == arr[pk[k + 1]]
      peaks       == FindPeaksHeight(segment, h)
  IN IF Len(peaks) = 1
     THEN LET abs_peak_idx == AbsIdx(pk, k, peaks[1])
              left_diff    == segment[peaks[1]] - rpeak_left
              right_diff   == segment[peaks[1]] - rpeak_right
          IN IF left_diff >= 0 /\ right_diff >= 0
             THEN << <<CloserSlot(pk, k, abs_peak_idx), abs_peak_idx>> >>
             ELSE IF left_diff * right_diff <= 0
             THEN << <<LowerSlot(rpeak_left, rpeak_right, k), abs_peak_idx>> >>
             ELSE << >>
     ELSE IF Len(peaks) = 2
     THEN LET abs_peak_idx_1 == AbsIdx(pk, k, peaks[1])
              abs_peak_idx_2 == AbsIdx(pk, k, peaks[2])
              diff_1         == segment[peaks[1]] - rpeak_left
              diff_2         == segment[peaks[2]] - rpeak_right
          IN IF BothExceed(diff_1, diff_2)
             THEN TwoPeakWrites(k, abs_peak_idx_1, abs_peak_idx_2)
             ELSE << >>
     ELSE << >>

RECURSIVE ApplyWrites(_, _)
ApplyWrites(adj, ws) ==
  IF ws = << >> THEN adj
  ELSE ApplyWrites(SetSlot(adj, ws[1][1], ws[1][2]), Tail(ws))

(* for i in range(len(self.rpeaks) - 1): body *)
MainStep ==
  /\ pc = "main"
  /\ i <= Len(rpeaks) - 1
  /\ LET ws == SegmentWrites(ecg_arr, rpeaks, i, peak_height)
     IN /\ adjusted_rpeaks' = ApplyWrites(adjusted_rpeaks, ws)
        /\ writers' = [s \in DOMAIN writers |->
                         IF \E w \in Range(ws) : w[1] = s
                         THEN writers[s] \cup {i} ELSE writers[s]]
  /\ i' = i + 1
  /\ UNCHANGED <<pc, ecg_arr, rpeaks, candidate_rpeaks, peak_height, ret>>

(* lines 105-106: the number of slots that differ from the original *)
Changed(pk, adj) == Cardinality({ k \in DOMAIN pk : pk[k] # adj[k] })

(* the comparison of line 108 made strict *)
TooManyChangedStrict(pk, adj) == 2 * Changed(pk, adj) > Len(pk)

(* line 108: len(diff) >= len(self.rpeaks) * 0.5 *)
TooManyChanged(pk, adj) == 2 * Changed(pk, adj) >= Len(pk)

(* line 124 *)
ReturnNoFallback ==
  /\ pc = "main"
  /\ i > Len(rpeaks) - 1
  /\ ~TooManyChanged(rpeaks, adjusted_rpeaks)
  /\ ret' = "NoFallback"
  /\ pc' = "done"
  /\ UNCHANGED <<ecg_arr, rpeaks, adjusted_rpeaks, candidate_rpeaks,
                 peak_height, i, writers>>

(* line 108 taken *)
EnterFallback ==
  /\ pc = "main"
  /\ i > Len(rpeaks) - 1
  /\ TooManyChanged(rpeaks, adjusted_rpeaks)
  /\ i' = 1
  /\ pc' = "fallback"
  /\ UNCHANGED <<ecg_arr, rpeaks, adjusted_rpeaks, candidate_rpeaks,
                 peak_height, ret, writers>>

(* np.argmin in place of np.argmax *)
ArgMin(vals) ==
  CHOOSE j \in DOMAIN vals :
    /\ \A m \in DOMAIN vals : vals[m] >= vals[j]
    /\ \A m \in DOMAIN vals : vals[m] = vals[j] => j <= m

(* np.argmax(vals) for a non-empty sequence: the first position of the     *)
(* greatest value                                                          *)
ArgMax(vals) ==
  CHOOSE j \in DOMAIN vals :
    /\ \A m \in DOMAIN vals : vals[m] <= vals[j]
    /\ \A m \in DOMAIN vals : vals[m] = vals[j] => j <= m

(* lines 110-115; np.argmax raises ValueError on an empty selection *)
CandidateFound ==
  /\ pc = "fallback"
  /\ i <= Len(adjusted_rpeaks) - 1
  /\ LET segment == Segment(ecg_arr, adjusted_rpeaks[i], adjusted_rpeaks[i + 1])
         peaks   == FindPeaks(segment)
     IN /\ Len(peaks) > 0
        /\ LET max_peak_idx == ArgMax([j \in DOMAIN peaks |-> segment[peaks[j]]])
               max_peaks    == adjusted_rpeaks[i] + peaks[max_peak_idx]
           IN candidate_rpeaks' = Append(candidate_rpeaks, max_peaks)
  /\ i' = i + 1
  /\ UNCHANGED <<pc, ecg_arr, rpeaks, adjusted_rpeaks, peak_height, ret, writers>>

(* lines 116-118: the except branch *)
CandidateError ==
  /\ pc = "fallback"
  /\ i <= Len(adjusted_rpeaks) - 1
  /\ Len(FindPeaks(Segment(ecg_arr, adjusted_rpeaks[i], adjusted_rpeaks[i + 1]))) = 0
  /\ i' = i + 1
  /\ UNCHANGED <<pc, ecg_arr, rpeaks, adjusted_rpeaks, candidate_rpeaks,
                 peak_height, ret, writers>>

(* the comprehension of line 121 with the two lists exchanged *)
RemoveDuplicatesSwapped(cands, adj) ==
  LET keep(peak) == peak \notin Range(cands) IN SelectSeq(adj, keep)

(* line 121: [peak for peak in candidate_rpeaks if peak not in adjusted_rpeaks] *)
RemoveDuplicates(cands, adj) ==
  LET keep(peak) == peak \notin Range(adj) IN SelectSeq(cands, keep)

(* lines 120-122 *)
ReturnFallback ==
  /\ pc = "fallback"
  /\ i > Len(adjusted_rpeaks) - 1
  /\ candidate_rpeaks' = RemoveDuplicates(candidate_rpeaks, adjusted_rpeaks)
  /\ ret' = "Fallback"
  /\ pc' = "done"
  /\ UNCHANGED <<ecg_arr, rpeaks, adjusted_rpeaks, peak_height, i, writers>>

Adjust ==
  \/ ReturnNoPeaks
  \/ BeginAdjust
  \/ MainStep
  \/ ReturnNoFallback
  \/ EnterFallback
  \/ CandidateFound
  \/ CandidateError
  \/ ReturnFallback

(* the whole main loop, lines 60-102, from slot k on *)
RECURSIVE MainPass(_, _, _, _)
MainPass(arr, pk, adj, k) ==
  IF k > Len(pk) - 1 THEN adj
  ELSE MainPass(arr, pk,
                ApplyWrites(adj, SegmentWrites(arr, pk, k, PeakHeight(arr))),
                k + 1)

(* recordings of SigLen samples with at most MaxPeaks peaks *)
Init == RawRecording(SigLen)
GetRpeaks ==
  /\ pc = "new"
  /\ Detected(MaxPeaks)
  /\ pc' = "ready"
  /\ UNCHANGED <<adjusted_rpeaks, candidate_rpeaks, peak_height, i, ret, writers>>
Next == GetRpeaks \/ Adjust
Spec == Init /\ [][Next]_vars

(* two samples and one peak more: the shortest recordings in which two     *)
(* neighbouring segments can both assign the slot between them             *)
LongLen == SigLen + 2
LongPeaks == MaxPeaks + 1
InitLong == RawRecording(LongLen)
GetRpeaksLong ==
  /\ pc = "new"
  /\ Detected(LongPeaks)
  /\ pc' = "ready"
  /\ UNCHANGED <<adjusted_rpeaks, candidate_rpeaks, peak_height, i, ret, writers>>
NextLong == GetRpeaksLong \/ Adjust
SpecLong == InitLong /\ [][NextLong]_vars

(* ------------------------------ claims -------------------------------- *)
(* the maxima the finder returns for the segment between slots k and k+1  *)
(* of the original peaks, as absolute sample positions, ascending         *)
MaximaAt(k) ==
  LET seg == Segment(ecg_arr, rpeaks[k], rpeaks[k + 1])
      off == FindPeaksHeight(seg, peak_height)
  IN [j \in DOMAIN off |-> rpeaks[k] + off[j]]

InMainLoop == pc = "main" /\ i <= Len(rpeaks) - 1

(* the main loop has just processed the segment between slots k and k+1 *)
JustProcessed(k) == pc = "main" /\ i = k + 1 /\ k >= 1

(* C1: a step of the main loop on a segment with exactly one maximum, at   *)
(* least as tall as both boundary peaks, writes the maximum's position     *)
(* into the right slot if it lies strictly farther from the left peak than *)
(* from the right one, into the left slot otherwise (ties included), and   *)
(* leaves every other slot as it was.                                      *)
C1_SingleMaxDominance ==
  [][ (/\ InMainLoop
       /\ Len(MaximaAt(i)) = 1
       /\ ecg_arr[MaximaAt(i)[1]] >= ecg_arr[rpeaks[i]]
       /\ ecg_arr[MaximaAt(i)[1]] >= ecg_arr[rpeaks[i + 1]])
      => LET abs  == MaximaAt(i)[1]
             slot == IF (abs - rpeaks[i]) > (rpeaks[i + 1] - abs)
                     THEN i + 1 ELSE i
         IN adjusted_rpeaks' = [adjusted_rpeaks EXCEPT ![slot] = abs] ]_vars

(* a dominant single maximum closer to the right peak has just replaced it *)
C1_Witness ==
  \E k \in 1 .. (Len(rpeaks) - 1) :
    /\ JustProcessed(k)
    /\ Len(MaximaAt(k)) = 1
    /\ ecg_arr[MaximaAt(k)[1]] >= ecg_arr[rpeaks[k]]
    /\ ecg_arr[MaximaAt(k)[1]] >= ecg_arr[rpeaks[k + 1]]
    /\ (MaximaAt(k)[1] - rpeaks[k]) > (rpeaks[k + 1] - MaximaAt(k)[1])
    /\ adjusted_rpeaks[k + 1] = MaximaAt(k)[1]
    /\ adjusted_rpeaks[k] = rpeaks[k]

(* C2: a step of the main loop on a segment with exactly one maximum that  *)
(* is not at least as tall as both boundary peaks: if it is at least as    *)
(* tall as exactly one of them (left_diff * right_diff <= 0) its position  *)
(* is written into the slot of the boundary peak with the lower amplitude  *)
(* (left slot if left < right, else right slot); if it is below both, no   *)
(* slot is written.                                                        *)
C2_LowerNeighbor ==
  [][ (/\ InMainLoop
       /\ Len(MaximaAt(i)) = 1
       /\ ~(/\ ecg_arr[MaximaAt(i)[1]] >= ecg_arr[rpeaks[i]]
            /\ ecg_arr[MaximaAt(i)[1]] >= ecg_arr[rpeaks[i + 1]]))
      => LET abs   == MaximaAt(i)[1]
             left  == ecg_arr[rpeaks[i]]
             right == ecg_arr[rpeaks[i + 1]]
             one   == (ecg_arr[abs] >= left) # (ecg_arr[abs] >= right)
             slot  == IF left < right THEN i ELSE i + 1
         IN /\ one <=> ((ecg_arr[abs] - left) * (ecg_arr[abs] - right) <= 0)
            /\ one => /\ adjusted_rpeaks' = [adjusted_rpeaks EXCEPT ![slot] = abs]
                      /\ ecg_arr[rpeaks[slot]] < ecg_arr[rpeaks[2 * i + 1 - slot]]
            /\ ~one => adjusted_rpeaks' = adjusted_rpeaks ]_vars

(* a single maximum between the two boundary amplitudes has just replaced  *)
(* the lower, right peak                                                   *)
C2_Witness ==
  \E k \in 1 .. (Len(rpeaks) - 1) :
    /\ JustProcessed(k)
    /\ Len(MaximaAt(k)) = 1
    /\ ecg_arr[MaximaAt(k)[1]] < ecg_arr[rpeaks[k]]
    /\ ecg_arr[MaximaAt(k)[1]] >= ecg_arr[rpeaks[k + 1]]
    /\ adjusted_rpeaks[k + 1] = MaximaAt(k)[1]
    /\ adjusted_rpeaks[k] = rpeaks[k]

(* C3: a step of the main loop on a segment with exactly two maxima, at    *)
(* positions abs1 < abs2, replaces both slots (left by abs1, right by      *)
(* abs2) if and only if abs1 is strictly taller than the left peak and     *)
(* abs2 strictly taller than the right peak; otherwise it writes no slot.  *)
C3_TwoMaxima ==
  [][ (InMainLoop /\ Len(MaximaAt(i)) = 2)
      => LET abs1 == MaximaAt(i)[1]
             abs2 == MaximaAt(i)[2]
             both == /\ ecg_arr[abs1] > ecg_arr[rpeaks[i]]
                     /\ ecg_arr[abs2] > ecg_arr[rpeaks[i + 1]]
         IN /\ abs1 < abs2
            /\ both => adjusted_rpeaks' =
                         [adjusted_rpeaks EXCEPT ![i] = abs1, ![i + 1] = abs2]
            /\ ~both => adjusted_rpeaks' = adjusted_rpeaks ]_vars

(* two maxima, each taller than its boundary peak, have just replaced both *)
C3_Witness ==
  \E k \in 1 .. (Len(rpeaks) - 1) :
    /\ JustProcessed(k)
    /\ Len(MaximaAt(k)) = 2
    /\ adjusted_rpeaks[k] = MaximaAt(k)[1]
    /\ adjusted_rpeaks[k + 1] = MaximaAt(k)[2]

Returned == pc = "done" /\ ret # "NoPeaks"

NumChanged == Cardinality({ k \in DOMAIN rpeaks : adjusted_rpeaks[k] # rpeaks[k] })

(* ceil(N / 2) *)
HalfUp(n) == (n + 1) \div 2

(* C4: for a non-empty peak sequence of length N the call returns the      *)
(* fallback's candidate list as second element exactly when the number of  *)
(* changed slots is at least ceil(N / 2), and the no-fallback sentinel     *)
(* when it is smaller (in particular with one change fewer).               *)
C4_FallbackThreshold ==
  (pc = "done" /\ Len(rpeaks) > 0)
  => /\ NumChanged >= HalfUp(Len(rpeaks)) => ret = "Fallback"
     /\ NumChanged < HalfUp(Len(rpeaks)) => ret = "NoFallback"

(* the fallback ran with exactly ceil(N / 2) changed slots, N even *)
C4_Witness ==
  /\ pc = "done"
  /\ ret = "Fallback"
  /\ Len(rpeaks) >= 2
  /\ 2 * NumChanged = Len(rpeaks)

(* C5: no value of a returned candidate list appears in the returned       *)
(* adjusted peak sequence.                                                 *)
C5_CandidatesDisjoint ==
  (pc = "done" /\ ret = "Fallback")
  => \A j \in DOMAIN candidate_rpeaks :
       \A k \in DOMAIN adjusted_rpeaks : candidate_rpeaks[j] # adjusted_rpeaks[k]

(* a non-empty candidate list was returned *)
C5_Witness ==
  pc = "done" /\ ret = "Fallback" /\ Len(candidate_rpeaks) >= 1

(* C6: with an empty peak sequence adjust_rpeaks returns (False, False)    *)
(* at once: the call is never inside the main loop or the fallback, no     *)
(* adjusted sequence and no candidate list is produced.                    *)
C6_NoPeaks ==
  (pc \notin {"new", "ready"} /\ Len(rpeaks) = 0)
  => /\ pc = "done"
     /\ ret = "NoPeaks"
     /\ i = 0
     /\ adjusted_rpeaks = << >>
     /\ candidate_rpeaks = << >>
     /\ writers = << >>

(* the call has returned for an empty peak sequence *)
C6_Witness == pc = "done" /\ Len(rpeaks) = 0 /\ ret = "NoPeaks"

(* C7: from the copy of line 54 on, through the main loop, the fallback    *)
(* and in the returned result, the adjusted sequence has the length of     *)
(* the input peak sequence.                                                *)
C7_SameLength ==
  (pc \in {"main", "fallback"} \/ Returned)
  => /\ Len(adjusted_rpeaks) = Len(rpeaks)
     /\ DOMAIN adjusted_rpeaks = DOMAIN rpeaks

(* a result with every slot replaced has been returned *)
C7_Witness ==
  /\ Returned
  /\ Len(rpeaks) >= 2
  /\ NumChanged = Len(rpeaks)

(* C8 as claimed: the main loop writes disjoint positions, no slot is      *)
(* written by two different segments.                                      *)
C8_DisjointWrites ==
  \A s \in DOMAIN writers : Cardinality(writers[s]) <= 1

(* the value the segment between slots k and k+1 assigns to slot s *)
WrittenBy(k, s) ==
  LET ws == SegmentWrites(ecg_arr, rpeaks, k, peak_height)
  IN { w[2] : w \in { v \in Range(ws) : v[1] = s } }

(* C8 amended: slot s is written only by the segments on its two sides     *)
(* (s-1 as its right slot, s as its left slot), and both can write it; the *)
(* two values then differ (one below, one above the original peak) and the *)
(* sequential loop keeps the later one, that of segment s.                 *)
C8_NeighbourWrites ==
  \A s \in DOMAIN writers :
    /\ writers[s] \subseteq {s - 1, s}
    /\ writers[s] = {} => adjusted_rpeaks[s] = rpeaks[s]
    /\ writers[s] = {s - 1} => /\ adjusted_rpeaks[s] < rpeaks[s]
                               /\ WrittenBy(s - 1, s) = {adjusted_rpeaks[s]}
    /\ s \in writers[s] => /\ adjusted_rpeaks[s] > rpeaks[s]
                            /\ WrittenBy(s, s) = {adjusted_rpeaks[s]}
    /\ writers[s] = {s - 1, s} =>
          \A v \in WrittenBy(s - 1, s) : v < rpeaks[s] /\ v # adjusted_rpeaks[s]

(* a slot has been written by the segments on both of its sides *)
C8_Witness ==
  \E s \in DOMAIN writers : writers[s] = {s - 1, s}

StrictlyAscending(q) ==
  \A a \in DOMAIN q : \A b \in DOMAIN q : a < b => q[a] < q[b]

(* C9 as claimed: among the cleaned recordings and the strictly ascending  *)
(* peak sequences get_rpeaks can deliver there is one for which the main   *)
(* loop leaves a later slot with a position lower than or equal to an      *)
(* earlier slot's.                                                         *)
C9_NonAscendingPossible ==
  pc = "new" =>
    \E arr \in Signals(LongLen) : \E pk \in PeakSeqs(LongLen, LongPeaks) :
      ~StrictlyAscending(MainPass(arr, pk, pk, 1))

(* C9 amended: for a strictly ascending peak sequence the adjusted         *)
(* sequence is strictly ascending at every point of the main loop and in   *)
(* the returned result (which is the main loop's result).                  *)
C9_StaysAscending ==
  /\ (pc \in {"main", "fallback"} \/ Returned) => StrictlyAscending(adjusted_rpeaks)
  /\ Returned => adjusted_rpeaks = MainPass(ecg_arr, rpeaks, rpeaks, 1)

(* a result in which two neighbouring slots were both replaced *)
C9_Witness ==
  /\ Returned
  /\ \E k \in 1 .. (Len(rpeaks) - 1) :
        /\ adjusted_rpeaks[k] # rpeaks[k]
        /\ adjusted_rpeaks[k + 1] # rpeaks[k + 1]
        /\ adjusted_rpeaks[k] > rpeaks[k]
        /\ adjusted_rpeaks[k + 1] < rpeaks[k + 1]

(* the local maxima (no height floor) of the segment between slots k and   *)
(* k+1 of the adjusted sequence, as absolute positions                     *)
FallbackMaxima(k) ==
  { adjusted_rpeaks[k] + p :
      p \in LocalMaxima(Segment(ecg_arr, adjusted_rpeaks[k], adjusted_rpeaks[k + 1])) }

(* C10: a returned candidate list holds, in segment order, exactly one     *)
(* entry for each pair of neighbouring adjusted peaks whose segment has a  *)
(* local maximum, namely the position of a local maximum of that segment   *)
(* with the greatest amplitude, and nothing for the other segments; so it  *)
(* has at most len(adjusted) - 1 entries.                                  *)
C10_CandidateSelection ==
  (pc = "done" /\ ret = "Fallback")
  => /\ Len(candidate_rpeaks) <= Len(adjusted_rpeaks) - 1
     /\ StrictlyAscending(candidate_rpeaks)
     /\ \A j \in DOMAIN candidate_rpeaks :
          \E k \in 1 .. (Len(adjusted_rpeaks) - 1) :
            candidate_rpeaks[j] \in FallbackMaxima(k)
     /\ \A k \in 1 .. (Len(adjusted_rpeaks) - 1) :
          LET M  == FallbackMaxima(k)
              at == { j \in DOMAIN candidate_rpeaks :
                        /\ adjusted_rpeaks[k] < candidate_rpeaks[j]
                        /\ candidate_rpeaks[j] < adjusted_rpeaks[k + 1] }
          IN /\ M = {} => at = {}
             /\ M # {} =>
                  /\ Cardinality(at) = 1
                  /\ \A j \in at :
                       /\ candidate_rpeaks[j] \in M
                       /\ \A m \in M : ecg_arr[m] <= ecg_arr[candidate_rpeaks[j]]

(* a candidate was returned for a segment with two local maxima of         *)
(* different amplitudes: the taller one                                    *)
C10_Witness ==
  /\ pc = "done"
  /\ ret = "Fallback"
  /\ \E m \in 1 .. (Len(adjusted_rpeaks) - 1) :
        \E a \in FallbackMaxima(m) : \E b \in FallbackMaxima(m) :
          /\ ecg_arr[a] < ecg_arr[b]
          /\ \E j \in DOMAIN candidate_rpeaks : candidate_rpeaks[j] = b
====
